---- MODULE Spec2Model ----
(* Block batch iterator of taiko-client (pkg/chain_iterator): construction,   *)
(* the retry driver Iter, the forward and reverse epochs, the reorg check and *)
(* the callback protocol, against a chain accessor whose chain can reorg,     *)
(* grow and fail. A second specification, ProducerSpec, is one RequestProof   *)
(* call of the SGX proof producer (prover/proof_producer) polling its daemon. *)
EXTENDS Integers, Sequences, FiniteSets, TLC

(* ------------------------------------------------------------------------ *)
(* Bounds of the model                                                       *)
(* ------------------------------------------------------------------------ *)
MaxHeight == 3      \* heights are 0..MaxHeight
MaxBatch == 2       \* configured MaxBlocksReadPerEpoch is 0..MaxBatch, or unset
MaxDepth == 1       \* configured ReorgRewindDepth is unset or MaxDepth
MaxBlockID == 1     \* block IDs handed to RequestProof are 0..MaxBlockID
MaxProofLen == 4    \* the daemon's proof strings have 0..MaxProofLen characters
MaxPolls == 2       \* unanswered polls of the daemon are counted up to MaxPolls
WordRange == 65536  \* unsigned heights wrap around at WordRange (2^64 in the program)

(* Program constants *)
DefaultBlocksReadPerEpoch == 1000

(* Absent values: a nil pointer is NoValue for a height or a count, NilHeader *)
(* for a header. A header is its height and whether it is an orphan: a header *)
(* whose hash the accessor does not resolve, because its block has been       *)
(* reorganised away since the accessor served it or because it never came     *)
(* from the accessor.                                                         *)
NoValue == -1
NilHeader == [number |-> NoValue, orphan |-> FALSE]

Heights == 0..MaxHeight
Headers == [number : Heights, orphan : BOOLEAN]

Max(a, b) == IF a >= b THEN a ELSE b

VARIABLES
    cfg,        \* BlockBatchIteratorConfig handed to NewBlockBatchIterator
    it,         \* the BlockBatchIterator (fields set by construction; current and isEnd mutable)
    pc,         \* position of the single thread of control
    loc,        \* locals of the running epoch: destHeight, candidate height, isLastEpoch, boundary header
    signal,     \* what the last epoch returned to the driver: none | continue | eof | error
    brk,        \* how iterOp's loop ended: none | ctx | eof
    result,     \* what NewBlockBatchIterator / Iter returned: none | nil | ctxErr | configErr | chainIDErr | lookupErr
    cancelled,  \* ctx.Err() != nil
    head,       \* chain head height (BlockNumber)
    first,      \* history: Iter has not returned yet on this iterator
    clean,      \* history: first Iter call, and so far no failure, no reorg seen, no capability used
    pairs,      \* history: heights (start, end) and finality of the callback invocations of a clean run
    calls,      \* history: accessor calls of construction, then of the last epoch attempt
    lastCb,     \* history: what the callback did in the epoch that has just returned
    waited,     \* history: a backoff wait happened since the last epoch returned
    args,       \* history: heights passed to the last callback invocation and the destination of
                \* its epoch; retry: it failed without a cursor update and no reorg was seen since
    served,     \* history, kept in a fair run only (NoValue otherwise): callback invocations
                \* that returned nil since Iter was called
    producer,   \* one RequestProof call of the SGX producer: arguments, context, position,
                \* callProverDaemon's proof, the result channel
    lookup      \* history: what the by-hash lookup answered in the step just taken

vars == <<cfg, it, pc, loc, signal, brk, result, cancelled, head,
          first, clean, pairs, calls, lastCb, waited, args, served, producer, lookup>>

(* ------------------------------------------------------------------------ *)
(* Chain accessor                                                            *)
(* ------------------------------------------------------------------------ *)
\* HeaderByNumber(nil) is the latest header
LookupHeight(h) == IF h = NoValue THEN head ELSE h

HeaderByNumberFound(h) == LookupHeight(h) <= head

HeaderByNumber(h) == [number |-> LookupHeight(h), orphan |-> FALSE]

\* The hash of a header resolves iff its block is still on the chain
HeaderByHashFound(hdr) == ~hdr.orphan

\* What a reorganisation from height r on does to a header the program holds
Orphaned(hdr, r) ==
    IF hdr # NilHeader /\ hdr.number >= r THEN [hdr EXCEPT !.orphan = TRUE] ELSE hdr

(* ------------------------------------------------------------------------ *)
(* Pure computations of the epochs                                           *)
(* ------------------------------------------------------------------------ *)
\* Faulty variant: without an end height the destination lags one block behind the head
DestHeightLagging(endHeight, headHeight) ==
    IF endHeight # NoValue THEN endHeight
    ELSE IF headHeight = 0 THEN 0 ELSE headHeight - 1

\* iter, lines 195-201: the configured end height, or the chain head queried just now
DestHeight(endHeight, headHeight) ==
    IF endHeight # NoValue THEN endHeight ELSE headHeight

\* Faulty variant: a cursor exactly at the destination is not yet exhausted
FwdExhaustedStrict(cur, dest) == cur > dest

\* iter, line 203: the range is exhausted
FwdExhausted(cur, dest) == cur >= dest

\* Faulty variant: a reverse cursor exactly at the start height is not yet exhausted
RevExhaustedStrict(cur, start) == cur < start

\* reverseIter, line 246: the range is exhausted
RevExhausted(cur, start) == cur <= start

\* Faulty variant: the candidate end height is not clamped to destHeight
FwdCandidateNoClamp(cur, batch, dest) ==
    LET endHeight == cur + batch
    IN  [h |-> endHeight, last |-> endHeight >= dest]

\* Faulty variant: the batch is counted inclusively, one block too long
FwdCandidateOffByOne(cur, batch, dest) ==
    LET endHeight == cur + batch + 1
    IN  IF endHeight >= dest
        THEN [h |-> dest, last |-> TRUE]
        ELSE [h |-> endHeight, last |-> FALSE]

\* Faulty variant: a batch that ends exactly at destHeight is not taken as the last
FwdCandidateLateFinal(cur, batch, dest) ==
    LET endHeight == cur + batch
    IN  IF endHeight > dest
        THEN [h |-> dest, last |-> TRUE]
        ELSE [h |-> endHeight, last |-> FALSE]

\* iter: endHeight = current + blocksReadPerEpoch (an unsigned sum, which wraps
\* around), clamped to destHeight
FwdCandidate(cur, batch, dest) ==
    LET endHeight == (cur + batch) % WordRange
    IN  IF endHeight >= dest
        THEN [h |-> dest, last |-> TRUE]
        ELSE [h |-> endHeight, last |-> FALSE]

\* Faulty variant: the subtraction is unsigned and unguarded, so it wraps around
RevCandidateWrapAround(cur, batch, start) ==
    LET startHeight == (cur - batch) % WordRange
    IN  IF startHeight <= start
        THEN [h |-> start, last |-> TRUE]
        ELSE [h |-> startHeight, last |-> FALSE]

\* Faulty variant: the reverse batch is one block too long
RevCandidateOffByOne(cur, batch, start) ==
    LET startHeight == IF cur <= batch + 1 THEN 0 ELSE cur - batch - 1
    IN  IF startHeight <= start
        THEN [h |-> start, last |-> TRUE]
        ELSE [h |-> startHeight, last |-> FALSE]

\* reverseIter: startHeight = current - blocksReadPerEpoch floored at 0, clamped to startHeight
RevCandidate(cur, batch, start) ==
    LET startHeight == IF cur <= batch THEN 0 ELSE cur - batch
    IN  IF startHeight <= start
        THEN [h |-> start, last |-> TRUE]
        ELSE [h |-> startHeight, last |-> FALSE]

\* rewindOnReorgDetected: newCurrentHeight
RewindHeight(cur, depth) == IF cur <= depth THEN 0 ELSE cur - depth

\* Faulty variant: updateCurrent does nothing
UpdateCurrentIgnored(current, hdr) == current

\* Faulty variant: updateCurrent takes a nil header as the cursor
UpdateCurrentTakesNil(current, hdr) == hdr

\* updateCurrent: a nil header is ignored
UpdateCurrent(current, hdr) == IF hdr = NilHeader THEN current ELSE hdr

(* ------------------------------------------------------------------------ *)
(* Initial state: a configuration, a chain, nothing constructed yet          *)
(* ------------------------------------------------------------------------ *)
Configs ==
    [Client : BOOLEAN, OnBlocks : BOOLEAN,
     StartHeight : {NoValue} \cup Heights,
     EndHeight : {NoValue} \cup Heights,
     MaxBlocksReadPerEpoch : {NoValue} \cup (0..MaxBatch),
     Reverse : BOOLEAN,
     ReorgRewindDepth : {NoValue, MaxDepth}]

\* Of the configurations without a client, a callback or a start height, one each is enough
ConfigShape(c) ==
    /\ (~c.Client \/ ~c.OnBlocks \/ c.StartHeight = NoValue) =>
          /\ c.EndHeight = NoValue
          /\ c.MaxBlocksReadPerEpoch = NoValue
          /\ c.ReorgRewindDepth = NoValue
          /\ ~c.Reverse
    /\ ~c.Client => c.OnBlocks /\ c.StartHeight = 0
    /\ ~c.OnBlocks => c.StartHeight = 0

NoIterator ==
    [startHeight |-> NoValue, endHeight |-> NoValue, blocksReadPerEpoch |-> NoValue,
     reverse |-> FALSE, reorgRewindDepth |-> 0, current |-> NilHeader, isEnd |-> FALSE]

NoLocals == [dest |-> NoValue, cand |-> NoValue, last |-> FALSE, hdr |-> NilHeader]

NoArgs == [start |-> NoValue, end |-> NoValue, dest |-> NoValue, retry |-> FALSE]

NoCallback == [called |-> FALSE, updCalled |-> FALSE, upd |-> NilHeader,
               end |-> FALSE, err |-> FALSE]

\* No RequestProof call is under way
NoRequest ==
    [pc |-> "none", blockID |-> NoValue, header |-> NilHeader, ctxDone |-> FALSE,
     polls |-> 0, proof |-> <<>>, resultCh |-> <<>>, ret |-> "none"]

\* No by-hash lookup was made in the step just taken
NoLookup == [current |-> FALSE, err |-> "none"]

Init ==
    /\ cfg \in {c \in Configs : ConfigShape(c)}
    /\ it = NoIterator
    /\ pc = "new"
    /\ loc = NoLocals
    /\ signal = "none"
    /\ brk = "none"
    /\ result = "none"
    /\ cancelled = FALSE
    /\ head = IF cfg.EndHeight = NoValue THEN MaxHeight - 1 ELSE MaxHeight
    /\ first = TRUE
    /\ clean = TRUE
    /\ pairs = <<>>
    /\ calls = <<>>
    /\ lastCb = NoCallback
    /\ waited = FALSE
    /\ args = NoArgs
    /\ served = NoValue
    /\ producer = NoRequest
    /\ lookup = NoLookup

\* Batch sizes at the upper end of the unsigned range
WideBatches == {WordRange - 2, WordRange - 1}

\* The initial states of a run whose configured batch size is a wide one
WideInit ==
    /\ cfg \in {[c EXCEPT !.MaxBlocksReadPerEpoch = b] :
                   c \in {d \in Configs : ConfigShape(d)}, b \in WideBatches}
    /\ it = NoIterator
    /\ pc = "new"
    /\ loc = NoLocals
    /\ signal = "none"
    /\ brk = "none"
    /\ result = "none"
    /\ cancelled = FALSE
    /\ head = IF cfg.EndHeight = NoValue THEN MaxHeight - 1 ELSE MaxHeight
    /\ first = TRUE
    /\ clean = TRUE
    /\ pairs = <<>>
    /\ calls = <<>>
    /\ lastCb = NoCallback
    /\ waited = FALSE
    /\ args = NoArgs
    /\ served = NoValue
    /\ producer = NoRequest
    /\ lookup = NoLookup

(* ------------------------------------------------------------------------ *)
(* Environment                                                               *)
(* ------------------------------------------------------------------------ *)
Constructed == pc \notin {"new", "chainID", "startHeader", "endHeader", "newfail"}

\* The context is cancelled
Cancel ==
    /\ Constructed
    /\ ~cancelled
    /\ cancelled' = TRUE
    /\ lookup' = NoLookup /\ UNCHANGED <<producer, served, cfg, it, pc, loc, signal, brk, result, head,
                   first, clean, pairs, calls, lastCb, waited, args>>

\* Every block from height r on is replaced: the headers the iterator holds of
\* such blocks no longer resolve by hash
Reorg ==
    /\ Constructed
    /\ \E r \in 0..head :
          /\ it' = [it EXCEPT !.current = Orphaned(@, r)]
          /\ loc' = [loc EXCEPT !.hdr = Orphaned(@, r)]
          /\ <<it', loc'>> # <<it, loc>>
    /\ lookup' = NoLookup /\ UNCHANGED <<producer, served, cfg, pc, signal, brk, result, cancelled, head,
                   first, clean, pairs, calls, lastCb, waited, args>>

\* The chain grows by one block
HeadAdvance ==
    /\ Constructed
    /\ head < MaxHeight
    /\ head' = head + 1
    /\ lookup' = NoLookup /\ UNCHANGED <<producer, served, cfg, it, pc, loc, signal, brk, result, cancelled,
                   first, clean, pairs, calls, lastCb, waited, args>>

(* ------------------------------------------------------------------------ *)
(* NewBlockBatchIterator                                                     *)
(* ------------------------------------------------------------------------ *)
NewFails(err) ==
    /\ pc' = "newfail"
    /\ result' = err
    /\ loc' = NoLocals
    /\ lookup' = NoLookup /\ UNCHANGED <<producer, served, cfg, it, signal, brk, cancelled, head, first, clean, pairs, lastCb, waited, args>>

\* lines 73-79: the client and the callback must be given
NewCheckArgs ==
    /\ pc = "new"
    /\ IF ~cfg.Client \/ ~cfg.OnBlocks
       THEN NewFails("configErr") /\ UNCHANGED calls
       ELSE /\ pc' = "chainID"
            /\ lookup' = NoLookup /\ UNCHANGED <<producer, served, cfg, it, loc, signal, brk, result, cancelled, head,
                           first, clean, pairs, calls, lastCb, waited, args>>

\* Faulty variant: a start height above the end height is not refused
NewChainIDNoRangeCheck ==
    /\ pc = "chainID"
    /\ calls' = Append(calls, <<"ChainID", NoValue>>)
    /\ \E fail \in BOOLEAN :
          IF fail
          THEN NewFails("chainIDErr")
          ELSE IF cfg.StartHeight = NoValue
          THEN NewFails("configErr")
          ELSE /\ pc' = "startHeader"
               /\ lookup' = NoLookup /\ UNCHANGED <<producer, served, cfg, it, loc, signal, brk, result, cancelled, head,
                              first, clean, pairs, lastCb, waited, args>>

\* lines 81-92: the chain ID is fetched, then the heights are validated
NewChainID ==
    /\ pc = "chainID"
    /\ calls' = Append(calls, <<"ChainID", NoValue>>)
    /\ \E fail \in BOOLEAN :
          IF fail
          THEN NewFails("chainIDErr")
          ELSE IF cfg.StartHeight = NoValue
          THEN NewFails("configErr")
          ELSE IF cfg.EndHeight # NoValue /\ cfg.StartHeight > cfg.EndHeight
          THEN NewFails("configErr")
          ELSE /\ pc' = "startHeader"
               /\ lookup' = NoLookup /\ UNCHANGED <<producer, served, cfg, it, loc, signal, brk, result, cancelled, head,
                              first, clean, pairs, lastCb, waited, args>>

\* lines 94-102: the start header is fetched, then reverse without end height is refused
NewStartHeader ==
    /\ pc = "startHeader"
    /\ calls' = Append(calls, <<"HeaderByNumber", cfg.StartHeight>>)
    /\ \E fail \in BOOLEAN :
          IF fail \/ ~HeaderByNumberFound(cfg.StartHeight)
          THEN NewFails("lookupErr")
          ELSE IF cfg.Reverse /\ cfg.EndHeight = NoValue
          THEN NewFails("configErr")
          ELSE /\ pc' = "endHeader"
               /\ loc' = [loc EXCEPT !.hdr = HeaderByNumber(cfg.StartHeight)]
               /\ lookup' = NoLookup /\ UNCHANGED <<producer, served, cfg, it, signal, brk, result, cancelled, head,
                              first, clean, pairs, lastCb, waited, args>>

\* Faulty variant: a configured batch size of 0 is taken as unset
NewIteratorZeroIsDefault(c, startHeader, endHeader) ==
    [startHeight |-> c.StartHeight,
     endHeight |-> c.EndHeight,
     blocksReadPerEpoch |-> IF c.MaxBlocksReadPerEpoch \notin {NoValue, 0}
                            THEN c.MaxBlocksReadPerEpoch
                            ELSE DefaultBlocksReadPerEpoch,
     reverse |-> c.Reverse,
     reorgRewindDepth |-> 0,
     current |-> IF c.Reverse THEN endHeader ELSE startHeader,
     isEnd |-> FALSE]

\* Faulty variant: the cursor is seeded with the header of the wrong end of the range
NewIteratorSwapped(c, startHeader, endHeader) ==
    [startHeight |-> c.StartHeight,
     endHeight |-> c.EndHeight,
     blocksReadPerEpoch |-> IF c.MaxBlocksReadPerEpoch # NoValue
                            THEN c.MaxBlocksReadPerEpoch
                            ELSE DefaultBlocksReadPerEpoch,
     reverse |-> c.Reverse,
     reorgRewindDepth |-> 0,
     current |-> IF c.Reverse THEN startHeader ELSE endHeader,
     isEnd |-> FALSE]

\* lines 107-139: the iterator built from the configuration and the two headers
NewIterator(c, startHeader, endHeader) ==
    [startHeight |-> c.StartHeight,
     endHeight |-> c.EndHeight,
     blocksReadPerEpoch |-> IF c.MaxBlocksReadPerEpoch # NoValue
                            THEN c.MaxBlocksReadPerEpoch
                            ELSE DefaultBlocksReadPerEpoch,
     reverse |-> c.Reverse,
     reorgRewindDepth |-> 0,
     current |-> IF c.Reverse THEN endHeader ELSE startHeader,
     isEnd |-> FALSE]

\* Faulty variant: without an end height no second header is fetched
NewEndHeaderSkipLatest ==
    /\ pc = "endHeader"
    /\ calls' = IF cfg.EndHeight = NoValue
                THEN calls
                ELSE Append(calls, <<"HeaderByNumber", cfg.EndHeight>>)
    /\ \E fail \in BOOLEAN :
          IF cfg.EndHeight # NoValue /\ (fail \/ ~HeaderByNumberFound(cfg.EndHeight))
          THEN NewFails("lookupErr")
          ELSE /\ pc' = "ready"
               /\ it' = NewIterator(cfg, loc.hdr, HeaderByNumber(cfg.EndHeight))
               /\ loc' = NoLocals
               /\ result' = "nil"
               /\ lookup' = NoLookup /\ UNCHANGED <<producer, served, cfg, signal, brk, cancelled, head,
                              first, clean, pairs, lastCb, waited, args>>

\* lines 103-140: the end header (the latest one when no end height is set) is fetched
NewEndHeader ==
    /\ pc = "endHeader"
    /\ calls' = Append(calls, <<"HeaderByNumber", cfg.EndHeight>>)
    /\ \E fail \in BOOLEAN :
          IF fail \/ ~HeaderByNumberFound(cfg.EndHeight)
          THEN NewFails("lookupErr")
          ELSE /\ pc' = "ready"
               /\ it' = NewIterator(cfg, loc.hdr, HeaderByNumber(cfg.EndHeight))
               /\ loc' = NoLocals
               /\ result' = "nil"
               /\ lookup' = NoLookup /\ UNCHANGED <<producer, served, cfg, signal, brk, cancelled, head,
                              first, clean, pairs, lastCb, waited, args>>

(* ------------------------------------------------------------------------ *)
(* Iter: the retry driver                                                    *)
(* ------------------------------------------------------------------------ *)
\* Iter is called on a constructed iterator (or again, once it has returned)
IterCall ==
    /\ pc \in {"ready", "done"}
    /\ pc' = "check"
    /\ first' = (pc = "ready")
    /\ clean' = (pc = "ready")
    /\ signal' = "none"
    /\ brk' = "none"
    /\ result' = "none"
    /\ pairs' = <<>>
    /\ calls' = <<>>
    /\ lastCb' = NoCallback
    /\ waited' = FALSE
    /\ args' = NoArgs
    /\ served' = IF served = NoValue THEN NoValue ELSE 0
    /\ lookup' = NoLookup /\ UNCHANGED <<producer, cfg, it, loc, cancelled, head>>

\* Faulty variant: the loop starts the epoch without looking at the context
DriverCheckBlind ==
    /\ pc = "check"
    /\ pc' = "reorg"
    /\ signal' = "none"
    /\ calls' = <<>>
    /\ lastCb' = NoCallback
    /\ waited' = FALSE
    /\ args' = IF args.retry THEN args ELSE NoArgs
    /\ lookup' = NoLookup /\ UNCHANGED <<producer, served, cfg, it, loc, brk, result, cancelled, head, first, clean, pairs>>

\* lines 151-161: iterOp's loop looks at the context before every epoch
DriverCheck ==
    /\ pc = "check"
    /\ IF cancelled
       THEN /\ pc' = "ret"
            /\ brk' = "ctx"
            /\ UNCHANGED <<signal, calls, lastCb, waited, args>>
       ELSE /\ pc' = "reorg"
            /\ signal' = "none"
            /\ calls' = <<>>
            /\ lastCb' = NoCallback
            /\ waited' = FALSE
            /\ args' = IF args.retry THEN args ELSE NoArgs
            /\ UNCHANGED brk
    /\ lookup' = NoLookup /\ UNCHANGED <<producer, served, cfg, it, loc, result, cancelled, head, first, clean, pairs>>

\* Faulty variant: the driver gives up when an epoch fails
AfterEpochGiveUp(sig) ==
    CASE sig = "eof" -> [pc |-> "ret", brk |-> "eof"]
      [] sig = "continue" -> [pc |-> "check", brk |-> "none"]
      [] OTHER -> [pc |-> "ret", brk |-> "none"]

\* Faulty variant: an epoch that failed is retried at once, without a wait
AfterEpochNoWait(sig) ==
    CASE sig = "eof" -> [pc |-> "ret", brk |-> "eof"]
      [] OTHER -> [pc |-> "check", brk |-> "none"]

\* Faulty variant: the driver leaves its loop after the first epoch that succeeds
AfterEpochOneShot(sig) ==
    CASE sig = "eof" -> [pc |-> "ret", brk |-> "eof"]
      [] sig = "continue" -> [pc |-> "ret", brk |-> "eof"]
      [] OTHER -> [pc |-> "backoff", brk |-> "none"]

\* lines 161-170: what the driver does with the value the epoch returned
AfterEpoch(sig) ==
    CASE sig = "eof" -> [pc |-> "ret", brk |-> "eof"]
      [] sig = "continue" -> [pc |-> "check", brk |-> "none"]
      [] OTHER -> [pc |-> "backoff", brk |-> "none"]

\* The epoch returns sig to the driver; disturbed says the run is no longer a clean one
EpochReturns(sig, disturbed) ==
    /\ signal' = sig
    /\ pc' = AfterEpoch(sig).pc
    /\ brk' = AfterEpoch(sig).brk
    /\ loc' = NoLocals
    /\ clean' = (clean /\ ~disturbed /\ sig # "error")

\* line 175: backoff.Retry waits one constant interval, then runs iterOp again
Backoff ==
    /\ pc = "backoff"
    /\ pc' = "check"
    /\ waited' = TRUE
    /\ lookup' = NoLookup /\ UNCHANGED <<producer, served, cfg, it, loc, signal, brk, result, cancelled, head,
                   first, clean, pairs, calls, lastCb, args>>

\* Faulty variant: Iter returns nil whatever the state of the context
IterResultAlwaysNil(ctxErr) == "nil"

\* line 179: what Iter returns once the retry wrapper has returned nil
IterResult(ctxErr) == IF ctxErr THEN "ctxErr" ELSE "nil"

IterReturn ==
    /\ pc = "ret"
    /\ pc' = "done"
    /\ result' = IterResult(cancelled)
    /\ lookup' = NoLookup /\ UNCHANGED <<producer, served, cfg, it, loc, signal, brk, cancelled, head,
                   first, clean, pairs, calls, lastCb, waited, args>>

(* ------------------------------------------------------------------------ *)
(* The reorg check of every epoch                                            *)
(* ------------------------------------------------------------------------ *)
\* Faulty variant: a not-found answer of the by-hash lookup is returned as an error
EnsureCurrentNotReorgedNotFoundFails ==
    /\ pc = "reorg"
    /\ calls' = Append(calls, <<"HeaderByHash", it.current.number>>)
    /\ \E fail \in BOOLEAN :
          IF fail \/ ~HeaderByHashFound(it.current)
          THEN EpochReturns("error", TRUE) /\ UNCHANGED args
          ELSE /\ pc' = "bounds"
               /\ UNCHANGED <<loc, signal, brk, clean, args>>
    /\ lookup' = NoLookup /\ UNCHANGED <<producer, served, cfg, it, result, cancelled, head, first, pairs, lastCb, waited>>

\* Faulty variant: once the termination latch is set the cursor is no longer looked up
EnsureCurrentNotReorgedUnlessEnded ==
    /\ pc = "reorg"
    /\ IF it.isEnd
       THEN /\ pc' = "bounds"
            /\ UNCHANGED <<calls, loc, signal, brk, clean, args>>
       ELSE /\ calls' = Append(calls, <<"HeaderByHash", it.current.number>>)
            /\ \E fail \in BOOLEAN :
                  IF fail
                  THEN EpochReturns("error", TRUE) /\ UNCHANGED args
                  ELSE IF HeaderByHashFound(it.current)
                  THEN /\ pc' = "bounds"
                       /\ UNCHANGED <<loc, signal, brk, clean, args>>
                  ELSE /\ pc' = "rewind"
                       /\ clean' = FALSE
                       /\ args' = NoArgs
                       /\ UNCHANGED <<loc, signal, brk>>
    /\ lookup' = NoLookup /\ UNCHANGED <<producer, served, cfg, it, result, cancelled, head, first, pairs, lastCb, waited>>

\* lines 298-299: the kinds of error of a lookup; notFound stands for every error whose
\* message is that of ethereum.NotFound
ErrKinds == {"nil", "notFound", "other"}

\* line 298: what HeaderByHash can answer for the cursor hdr: whether a header comes back,
\* and the error. A header comes back only for a hash that resolves, and a lookup
\* that does not fail leaves a resolving hash with its header
HeaderByHashAnswers(hdr) ==
    {a \in [current : BOOLEAN, err : ErrKinds] :
        /\ a.current => HeaderByHashFound(hdr)
        /\ (~a.current /\ a.err # "other") => ~HeaderByHashFound(hdr)}

\* Faulty variant: a not-found error means a reorg whether or not a header came back
ReorgCheckByErrorFirst(current, err) ==
    IF err = "notFound" THEN "reorged"
    ELSE IF err # "nil" THEN "error"
    ELSE IF current THEN "notReorged" ELSE "reorged"

\* lines 299-309: what ensureCurrentNotReorged makes of the lookup's answer
ReorgCheck(current, err) ==
    IF err # "nil" /\ err # "notFound" THEN "error"
    ELSE IF current THEN "notReorged" ELSE "reorged"

\* lines 297-310: the cursor is looked up by its hash
EnsureCurrentNotReorged ==
    /\ pc = "reorg"
    /\ calls' = Append(calls, <<"HeaderByHash", it.current.number>>)
    /\ \E a \in HeaderByHashAnswers(it.current) :
          /\ lookup' = a
          /\ LET outcome == ReorgCheck(a.current, a.err)
             IN  IF outcome = "error"
                 THEN EpochReturns("error", TRUE) /\ UNCHANGED args
                 ELSE IF outcome = "notReorged"
                 THEN /\ pc' = "bounds"
                      /\ UNCHANGED <<loc, signal, brk, clean, args>>
                 ELSE /\ pc' = "rewind"
                      /\ clean' = FALSE
                      /\ args' = NoArgs
                      /\ UNCHANGED <<loc, signal, brk>>
    /\ UNCHANGED <<producer, served, cfg, it, result, cancelled, head, first, pairs, lastCb, waited>>

\* Faulty variant: the result of the rewind lookup is assigned before its error is looked at
RewindOnReorgDetectedAssignsFirst ==
    /\ pc = "rewind"
    /\ LET newCurrentHeight == RewindHeight(it.current.number, it.reorgRewindDepth)
       IN  /\ calls' = Append(calls, <<"HeaderByNumber", newCurrentHeight>>)
           /\ \E fail \in BOOLEAN :
                 IF fail \/ ~HeaderByNumberFound(newCurrentHeight)
                 THEN /\ EpochReturns("error", TRUE)
                      /\ it' = [it EXCEPT !.current = NilHeader]
                 ELSE /\ it' = [it EXCEPT !.current = HeaderByNumber(newCurrentHeight)]
                      /\ pc' = "bounds"
                      /\ UNCHANGED <<loc, signal, brk, clean>>
    /\ lookup' = NoLookup /\ UNCHANGED <<producer, served, cfg, result, cancelled, head, first, pairs, lastCb, waited, args>>

\* lines 314-329: the cursor steps back reorgRewindDepth blocks
RewindOnReorgDetected ==
    /\ pc = "rewind"
    /\ LET newCurrentHeight == RewindHeight(it.current.number, it.reorgRewindDepth)
       IN  /\ calls' = Append(calls, <<"HeaderByNumber", newCurrentHeight>>)
           /\ \E fail \in BOOLEAN :
                 IF fail \/ ~HeaderByNumberFound(newCurrentHeight)
                 THEN /\ EpochReturns("error", TRUE)
                      /\ UNCHANGED it
                 ELSE /\ it' = [it EXCEPT !.current = HeaderByNumber(newCurrentHeight)]
                      /\ pc' = "bounds"
                      /\ UNCHANGED <<loc, signal, brk, clean>>
    /\ lookup' = NoLookup /\ UNCHANGED <<producer, served, cfg, result, cancelled, head, first, pairs, lastCb, waited, args>>

(* ------------------------------------------------------------------------ *)
(* iter and reverseIter                                                      *)
(* ------------------------------------------------------------------------ *)
\* lines 195-212: destination, exhaustion check and candidate end height
IterBounds ==
    /\ pc = "bounds"
    /\ ~it.reverse
    /\ \E fail \in BOOLEAN :
          /\ fail => it.endHeight = NoValue
          /\ calls' = IF it.endHeight = NoValue
                      THEN Append(calls, <<"BlockNumber", NoValue>>)
                      ELSE calls
          /\ LET destHeight == DestHeight(it.endHeight, head)
                 cand == FwdCandidate(it.current.number, it.blocksReadPerEpoch, destHeight)
             IN  IF fail
                 THEN EpochReturns("error", TRUE)
                 ELSE IF FwdExhausted(it.current.number, destHeight)
                 THEN EpochReturns("eof", FALSE)
                 ELSE /\ loc' = [dest |-> destHeight, cand |-> cand.h,
                                 last |-> cand.last, hdr |-> NilHeader]
                      /\ pc' = "fetch"
                      /\ UNCHANGED <<signal, brk, clean>>
    /\ lookup' = NoLookup /\ UNCHANGED <<producer, served, cfg, it, result, cancelled, head, first, pairs, lastCb, waited, args>>

\* lines 246-259: exhaustion check and candidate start height
ReverseIterBounds ==
    /\ pc = "bounds"
    /\ it.reverse
    /\ LET cand == RevCandidate(it.current.number, it.blocksReadPerEpoch, it.startHeight)
       IN  IF RevExhausted(it.current.number, it.startHeight)
           THEN EpochReturns("eof", FALSE)
           ELSE /\ loc' = [dest |-> it.startHeight, cand |-> cand.h,
                           last |-> cand.last, hdr |-> NilHeader]
                /\ pc' = "fetch"
                /\ UNCHANGED <<signal, brk, clean>>
    /\ lookup' = NoLookup /\ UNCHANGED <<producer, served, cfg, it, result, cancelled, head, first, pairs, calls, lastCb, waited, args>>

\* lines 214-216 and 261-263: the boundary header is fetched by number
FetchBoundary ==
    /\ pc = "fetch"
    /\ calls' = Append(calls, <<"HeaderByNumber", loc.cand>>)
    /\ \E fail \in BOOLEAN :
          IF fail \/ ~HeaderByNumberFound(loc.cand)
          THEN EpochReturns("error", TRUE)
          ELSE /\ loc' = [loc EXCEPT !.hdr = HeaderByNumber(loc.cand)]
               /\ pc' = "callback"
               /\ UNCHANGED <<signal, brk, clean>>
    /\ lookup' = NoLookup /\ UNCHANGED <<producer, served, cfg, it, result, cancelled, head, first, pairs, lastCb, waited, args>>

\* Faulty variant: iter moves the cursor to the end header although the callback failed
IterAfterCallbackAdvanceOnError(cur, isEnd, err, endHeader, isLastEpoch) ==
    IF err THEN [current |-> endHeader, sig |-> "error"]
    ELSE IF isEnd THEN [current |-> cur, sig |-> "eof"]
    ELSE [current |-> endHeader,
          sig |-> IF ~isLastEpoch /\ ~isEnd THEN "continue" ELSE "eof"]

\* Faulty variant: iter moves the cursor to the end header before it looks at the latch
IterAfterCallbackAdvanceOnEnd(cur, isEnd, err, endHeader, isLastEpoch) ==
    IF err THEN [current |-> cur, sig |-> "error"]
    ELSE [current |-> endHeader,
          sig |-> IF ~isLastEpoch /\ ~isEnd THEN "continue" ELSE "eof"]

\* Faulty variant: iter does not look at the termination latch
IterAfterCallbackNoLatch(cur, isEnd, err, endHeader, isLastEpoch) ==
    IF err THEN [current |-> cur, sig |-> "error"]
    ELSE [current |-> endHeader,
          sig |-> IF ~isLastEpoch THEN "continue" ELSE "eof"]

\* lines 218-232: what iter does once the callback has returned
\* (cur, isEnd: cursor and latch as the callback left them)
IterAfterCallback(cur, isEnd, err, endHeader, isLastEpoch) ==
    IF err THEN [current |-> cur, sig |-> "error"]
    ELSE IF isEnd THEN [current |-> cur, sig |-> "eof"]
    ELSE [current |-> endHeader,
          sig |-> IF ~isLastEpoch /\ ~isEnd THEN "continue" ELSE "eof"]

\* Faulty variant: reverseIter reports a set termination latch as an error
ReverseIterAfterCallbackEndIsError(cur, isEnd, err, startHeader, isLastEpoch) ==
    IF err \/ isEnd THEN [current |-> cur, sig |-> "error"]
    ELSE [current |-> startHeader,
          sig |-> IF ~isLastEpoch THEN "continue" ELSE "eof"]

\* Faulty variant: reverseIter does not look at the termination latch
ReverseIterAfterCallbackNoLatch(cur, isEnd, err, startHeader, isLastEpoch) ==
    IF err THEN [current |-> cur, sig |-> "error"]
    ELSE [current |-> startHeader,
          sig |-> IF ~isLastEpoch THEN "continue" ELSE "eof"]

\* lines 265-275: what reverseIter does once the callback has returned
ReverseIterAfterCallback(cur, isEnd, err, startHeader, isLastEpoch) ==
    IF err THEN [current |-> cur, sig |-> "error"]
    ELSE [current |-> startHeader,
          sig |-> IF ~isLastEpoch /\ ~isEnd THEN "continue" ELSE "eof"]

\* Faulty variant: reverseIter passes its headers in the order of iter
CallbackArgsForwardOrder(reverse, cur, hdr) == [start |-> cur, end |-> hdr]

\* lines 218 and 265: iter passes (current, endHeader), reverseIter (startHeader, current)
CallbackArgs(reverse, cur, hdr) ==
    IF reverse THEN [start |-> hdr, end |-> cur] ELSE [start |-> cur, end |-> hdr]

\* The headers a callback can hand to update-cursor: nil, a header of the chain,
\* or a header the chain does not hold
UpdateChoices == {NilHeader} \cup [number : 0..head, orphan : BOOLEAN]

\* The callback is invoked; it may update the cursor, end the iteration, fail
Callback ==
    /\ pc = "callback"
    /\ \E updCalled \in BOOLEAN, upd \in UpdateChoices, callEnd \in BOOLEAN, err \in BOOLEAN :
          /\ ~updCalled => upd = NilHeader
          /\ LET cur == UpdateCurrent(it.current, upd)
                 isEnd == it.isEnd \/ callEnd
                 passed == CallbackArgs(it.reverse, it.current, loc.hdr)
                 after == IF it.reverse
                          THEN ReverseIterAfterCallback(cur, isEnd, err, loc.hdr, loc.last)
                          ELSE IterAfterCallback(cur, isEnd, err, loc.hdr, loc.last)
                 used == updCalled \/ callEnd
             IN  /\ lastCb' = [called |-> TRUE, updCalled |-> updCalled, upd |-> upd,
                               end |-> callEnd, err |-> err]
                 /\ pairs' = IF clean /\ ~used /\ ~err /\ Len(pairs) < MaxHeight
                             THEN Append(pairs, [start |-> passed.start.number,
                                                 end |-> passed.end.number,
                                                 last |-> loc.last])
                             ELSE IF clean /\ ~used /\ ~err THEN pairs ELSE <<>>
                 /\ args' = [start |-> passed.start.number, end |-> passed.end.number,
                             dest |-> loc.dest, retry |-> err /\ ~updCalled]
                 /\ it' = [it EXCEPT !.current = after.current, !.isEnd = isEnd]
                 /\ served' = IF served = NoValue \/ err THEN served ELSE served + 1
                 /\ EpochReturns(after.sig, used)
    /\ lookup' = NoLookup /\ UNCHANGED <<producer, cfg, result, cancelled, head, first, calls, waited>>

(* ------------------------------------------------------------------------ *)
(* Specification                                                             *)
(* ------------------------------------------------------------------------ *)
Next ==
    \/ Cancel
    \/ Reorg
    \/ HeadAdvance
    \/ NewCheckArgs
    \/ NewChainID
    \/ NewStartHeader
    \/ NewEndHeader
    \/ IterCall
    \/ DriverCheck
    \/ Backoff
    \/ IterReturn
    \/ EnsureCurrentNotReorged
    \/ RewindOnReorgDetected
    \/ IterBounds
    \/ ReverseIterBounds
    \/ FetchBoundary
    \/ Callback

Spec == Init /\ [][Next]_vars

\* The same program, configured with a batch size at the upper end of the range
WideSpec == WideInit /\ [][Next]_vars

(* ------------------------------------------------------------------------ *)
(* A fair run: bounded range, batch size >= 1, no cancellation, no reorg, a    *)
(* callback that uses no capability, failures that do not go on forever       *)
(* ------------------------------------------------------------------------ *)
FairConfigs ==
    {c \in Configs : /\ c.Client
                     /\ c.OnBlocks
                     /\ c.StartHeight # NoValue
                     /\ c.EndHeight # NoValue
                     /\ c.StartHeight <= c.EndHeight
                     /\ c.MaxBlocksReadPerEpoch # 0}

FairInit ==
    /\ cfg \in FairConfigs
    /\ it = NoIterator
    /\ pc = "new"
    /\ loc = NoLocals
    /\ signal = "none"
    /\ brk = "none"
    /\ result = "none"
    /\ cancelled = FALSE
    /\ head = MaxHeight
    /\ first = TRUE
    /\ clean = TRUE
    /\ pairs = <<>>
    /\ calls = <<>>
    /\ lastCb = NoCallback
    /\ waited = FALSE
    /\ args = NoArgs
    /\ served = 0
    /\ producer = NoRequest
    /\ lookup = NoLookup

\* The callback is invoked and uses neither update-cursor nor end-iteration
PlainCallback == Callback /\ ~lastCb'.updCalled /\ ~lastCb'.end

FairNext ==
    \/ NewCheckArgs
    \/ NewChainID
    \/ NewStartHeader
    \/ NewEndHeader
    \/ IterCall
    \/ DriverCheck
    \/ Backoff
    \/ IterReturn
    \/ EnsureCurrentNotReorged
    \/ IterBounds
    \/ ReverseIterBounds
    \/ FetchBoundary
    \/ PlainCallback

\* The thread of control keeps running, and no lookup and no callback fails forever
Fairness ==
    /\ WF_vars(DriverCheck)
    /\ WF_vars(Backoff)
    /\ WF_vars(IterReturn)
    /\ WF_vars(IterBounds)
    /\ WF_vars(ReverseIterBounds)
    /\ SF_vars(EnsureCurrentNotReorged /\ pc' = "bounds")
    /\ SF_vars(FetchBoundary /\ pc' = "callback")
    /\ SF_vars(PlainCallback /\ ~lastCb'.err)

FairSpec == FairInit /\ [][FairNext]_vars /\ Fairness

(* ------------------------------------------------------------------------ *)
(* SGX proof producer: RequestProof and callProverDaemon                     *)
(* ------------------------------------------------------------------------ *)
\* Characters of the proof strings: two hexadecimal digits and one that is none
Chars == {"0", "f", "x"}

IsHex(c) == c \in {"0", "f"}

HexValue(c) == IF c = "f" THEN 15 ELSE 0

ProofStrings == UNION {[1..n -> Chars] : n \in 0..MaxProofLen}

\* common.Hex2Bytes: the bytes of the longest prefix of well-formed digit pairs
\* (the decoding error is dropped)
RECURSIVE Hex2Bytes(_)
Hex2Bytes(s) ==
    IF Len(s) < 2 \/ ~IsHex(s[1]) \/ ~IsHex(s[2])
    THEN <<>>
    ELSE <<16 * HexValue(s[1]) + HexValue(s[2])>> \o Hex2Bytes(SubSeq(s, 3, Len(s)))

\* line 105-113: the fields of the ProofWithHeader that depend on the call
ProofWithHeader(blockID, header, proof) ==
    [BlockID |-> blockID, Header |-> header, Proof |-> proof]

ProducerInit ==
    /\ cfg = CHOOSE c \in Configs : ConfigShape(c)
    /\ it = NoIterator
    /\ pc = "new"
    /\ loc = NoLocals
    /\ signal = "none"
    /\ brk = "none"
    /\ result = "none"
    /\ cancelled = FALSE
    /\ head = MaxHeight
    /\ first = TRUE
    /\ clean = TRUE
    /\ pairs = <<>>
    /\ calls = <<>>
    /\ lastCb = NoCallback
    /\ waited = FALSE
    /\ args = NoArgs
    /\ served = NoValue
    /\ lookup = NoLookup
    /\ \E blockID \in 0..MaxBlockID, number \in Heights :
          producer = [NoRequest EXCEPT !.pc = "request",
                                       !.blockID = blockID,
                                       !.header = [number |-> number, orphan |-> FALSE]]

IteratorVars ==
    <<cfg, it, pc, loc, signal, brk, result, cancelled, head,
      first, clean, pairs, calls, lastCb, waited, args, served, lookup>>

\* The context handed to RequestProof is cancelled
CtxDone ==
    /\ producer.pc \in {"request", "poll", "wait", "deliver"}
    /\ ~producer.ctxDone
    /\ producer' = [producer EXCEPT !.ctxDone = TRUE]
    /\ UNCHANGED IteratorVars

\* lines 80-100: NewSGXProducer sets no DummyProofProducer, so the daemon is polled
RequestProof ==
    /\ producer.pc = "request"
    /\ producer' = [producer EXCEPT !.pc = "poll"]
    /\ UNCHANGED IteratorVars

\* line 156: backoff.NewConstantBackOff(proofPollingInterval) answers every
\* request without a proof with the same interval, and never with a stop
NextBackOff(polls) == "proofPollingInterval"

\* lines 126-156: one run of the operation backoff.Retry repeats until it returns
\* nil. A failed request and a proof still being generated are retried after a
\* wait; a proof string shorter than its two-character prefix makes the slice
\* expression panic. Requests without a proof are counted up to MaxPolls.
CallProverDaemon ==
    /\ producer.pc = "poll"
    /\ IF producer.ctxDone
       THEN producer' = [producer EXCEPT !.pc = "deliver"]
       ELSE \/ producer' = [producer EXCEPT
                                !.polls = IF @ < MaxPolls THEN @ + 1 ELSE @,
                                !.pc = "wait"]
            \/ \E s \in ProofStrings :
                  IF Len(s) < 2
                  THEN producer' = [producer EXCEPT !.pc = "panic"]
                  ELSE producer' = [producer EXCEPT
                                       !.proof = Hex2Bytes(SubSeq(s, 3, Len(s))),
                                       !.pc = "deliver"]
    /\ UNCHANGED IteratorVars

\* lines 156-158 and 101-103: backoff.Retry sleeps for the interval its policy
\* gives and runs the operation again; were the policy to stop, the error would be
\* returned and no result sent
PollingWait ==
    /\ producer.pc = "wait"
    /\ producer' = IF NextBackOff(producer.polls) = "stop"
                   THEN [producer EXCEPT !.ret = "error", !.pc = "returned"]
                   ELSE [producer EXCEPT !.pc = "poll"]
    /\ UNCHANGED IteratorVars

\* lines 100-117: callProverDaemon returned without error, the result is sent
DeliverProof ==
    /\ producer.pc = "deliver"
    /\ producer' = [producer EXCEPT
                       !.resultCh = Append(@, ProofWithHeader(producer.blockID,
                                                              producer.header,
                                                              producer.proof)),
                       !.ret = "nil",
                       !.pc = "returned"]
    /\ UNCHANGED IteratorVars

ProducerNext ==
    \/ CtxDone
    \/ RequestProof
    \/ CallProverDaemon
    \/ PollingWait
    \/ DeliverProof

ProducerSpec == ProducerInit /\ [][ProducerNext]_vars

(* ------------------------------------------------------------------------ *)
(* Claims                                                                    *)
(* ------------------------------------------------------------------------ *)
\* The first Iter call on the iterator is running or has returned
InFirstCall == Constructed /\ pc # "ready" /\ first

\* A run without failure, reorg or capability use, in the given direction
CleanRun(reverse) ==
    /\ InFirstCall
    /\ clean
    /\ it.reverse = reverse
    /\ it.endHeight # NoValue
    /\ it.blocksReadPerEpoch >= 1

\* The pairs of the log are chained: each starts where the one before ended
Chained(p) == \A i \in 2..Len(p) : p[i].start = p[i-1].end

(* C1: coverage without gaps. In a forward run of Iter with start S, end E and   *)
(* batch size B >= 1, no reorg, no failure and a callback that returns nil and   *)
(* uses no capability, the pairs passed to the callback start at S, each later   *)
(* pair starts where the previous one ended, the last one ends at E, after which *)
(* no further epoch runs and Iter returns nil (the cancellation error only if    *)
(* the context was cancelled); S=0, E=3, B=2 gives exactly (0,2) then (2,3).     *)
C1_CoverageWithoutGaps ==
    CleanRun(FALSE) =>
        /\ Len(pairs) > 0 => pairs[1].start = it.startHeight
        /\ Chained(pairs)
        /\ \A i \in 1..Len(pairs) : pairs[i].end <= it.endHeight
        /\ (Len(pairs) > 0 /\ pairs[Len(pairs)].end = it.endHeight) => pc \in {"ret", "done"}
        /\ brk = "eof" =>
              IF it.startHeight = it.endHeight
              THEN pairs = <<>>
              ELSE Len(pairs) > 0 /\ pairs[Len(pairs)].end = it.endHeight
        /\ pc = "done" => result = "nil" \/ (result = "ctxErr" /\ cancelled)
        /\ (pc = "done" /\ result = "nil") => brk = "eof"
        /\ (brk = "eof" /\ it.startHeight = 0 /\ it.endHeight = 3 /\ it.blocksReadPerEpoch = 2) =>
              pairs = << [start |-> 0, end |-> 2, last |-> FALSE],
                         [start |-> 2, end |-> 3, last |-> TRUE] >>

\* A clean forward run of two epochs has returned nil
C1_Witness ==
    /\ CleanRun(FALSE)
    /\ pc = "done"
    /\ result = "nil"
    /\ Len(pairs) = 2
    /\ pairs[1].start = it.startHeight
    /\ pairs[2].end = it.endHeight

(* C2: batch sizing. In both directions, in every epoch that invokes the        *)
(* callback, the end height minus the start height of the pair passed equals    *)
(* the batch size B if the epoch is not the final one and is at most B if it is. *)
CallbackStart == IF it.reverse THEN loc.hdr.number ELSE it.current.number
CallbackEnd == IF it.reverse THEN it.current.number ELSE loc.hdr.number

CfgDepth == IF cfg.ReorgRewindDepth = NoValue THEN 0 ELSE cfg.ReorgRewindDepth

(* C3: reorg rewind. Whenever the by-hash lookup of the cursor reports not-found *)
(* at the start of an epoch, the cursor becomes the header fetched by number at  *)
(* height max(0, current.height - rewindDepth), rewindDepth being the depth      *)
(* given in the configuration (0 when unset), and the boundary computation of    *)
(* the epoch starts from this rewound cursor.                                    *)
C3_ReorgRewind ==
    [][(pc = "rewind" /\ pc' = "bounds") =>
          /\ it'.current.number = Max(0, it.current.number - CfgDepth)
          /\ ~it'.current.orphan]_vars

(* C4: cursor override honored. In either direction, if the callback invokes     *)
(* update-cursor with a non-nil header H during an epoch and returns nil without *)
(* requesting termination, the cursor at the start of the next epoch is H.       *)
C4_CursorOverrideHonored ==
    (/\ pc = "check"
     /\ signal = "continue"
     /\ lastCb.called /\ lastCb.updCalled /\ lastCb.upd # NilHeader
     /\ ~lastCb.err /\ ~lastCb.end /\ ~it.isEnd)
    => it.current.number = lastCb.upd.number

\* The termination latch was set by the callback of the epoch that just ran
EndedByCallback == lastCb.called /\ lastCb.end

(* C5: early termination honored. In either direction, if the callback invokes   *)
(* end-iteration during an epoch, no further epoch is started in this Iter call, *)
(* whether the callback returns nil or an error (the claim as stated).           *)
C5_EarlyTerminationAnyReturn ==
    (InFirstCall /\ it.isEnd) =>
        /\ pc \notin {"reorg", "rewind", "bounds", "fetch", "callback"}
        /\ pc = "done" => result = "nil" \/ (result = "ctxErr" /\ cancelled)

(* C5, amended: in either direction, if the callback invokes end-iteration       *)
(* during an epoch and returns nil, the epoch signals range-exhausted, no        *)
(* boundary computation, lookup or callback of a further epoch occurs in this    *)
(* Iter call, and Iter returns nil unless a cancellation is pending, whether or  *)
(* not blocks remain in the range.                                               *)
C5_EarlyTerminationHonored ==
    (EndedByCallback /\ ~lastCb.err) =>
        /\ pc \in {"ret", "done"}
        /\ signal = "eof"
        /\ brk = "eof"
        /\ it.isEnd
        /\ pc = "done" => result = "nil" \/ (result = "ctxErr" /\ cancelled)

\* A reverse run was ended by the callback with blocks remaining and returned nil
C5_Witness ==
    /\ EndedByCallback
    /\ ~lastCb.err
    /\ it.reverse
    /\ it.current.number > it.startHeight
    /\ pc = "done"
    /\ result = "nil"

\* The boundary heights of a forward log, and of a reverse log, in visiting order
FwdVisits(p) == IF p = <<>> THEN <<>> ELSE <<p[1].start>> \o [i \in 1..Len(p) |-> p[i].end]
RevVisits(p) == IF p = <<>> THEN <<>> ELSE <<p[1].end>> \o [i \in 1..Len(p) |-> p[i].start]
Reversed(s) == [i \in 1..Len(s) |-> s[Len(s) + 1 - i]]
Range(s) == {s[i] : i \in 1..Len(s)}

\* The pairs a forward run from cur to E with batch size B passes to the callback
RECURSIVE FwdPairs(_, _, _)
FwdPairs(cur, E, B) ==
    IF FwdExhausted(cur, E) THEN <<>>
    ELSE LET c == FwdCandidate(cur, B, E)
         IN  <<[start |-> cur, end |-> c.h, last |-> c.last]>>
             \o (IF c.last THEN <<>> ELSE FwdPairs(c.h, E, B))

\* A clean run in the given direction has traversed its whole range
CleanRunDone(reverse) == CleanRun(reverse) /\ pc = "done" /\ brk = "eof"

\* The forward run with the range and batch size of the iterator
SameForward == FwdPairs(it.startHeight, it.endHeight, it.blocksReadPerEpoch)

InLaterCall == Constructed /\ pc # "ready" /\ ~first

\* The cursor is at or past the end of the range of its direction
CursorExhausted ==
    IF it.reverse
    THEN it.current.number <= it.startHeight
    ELSE it.current.number >= (IF it.endHeight # NoValue THEN it.endHeight ELSE head)

(* C7: idempotent termination. Once an epoch has signalled range-exhausted,      *)
(* another epoch on the same iterator makes no Chain Accessor call and does not  *)
(* invoke the callback (the claim as stated).                                    *)
C7_NoFurtherCall ==
    InLaterCall => calls = <<>> /\ ~lastCb.called

(* C7, amended: once an epoch has signalled range-exhausted, another epoch on    *)
(* the same iterator first looks the cursor up by hash; if the cursor is found   *)
(* and is at or past the end of the range (forward: current.height >= dest,      *)
(* reverse: current.height <= start height), the epoch signals range-exhausted   *)
(* again without moving the cursor, without invoking the callback and with no    *)
(* other Chain Accessor call than the block number query that an iterator        *)
(* without end height needs to learn dest.                                       *)
C7_IdempotentTermination ==
    [][(/\ InLaterCall
        /\ pc = "bounds" /\ pc' # "bounds"
        /\ calls = << <<"HeaderByHash", it.current.number>> >>
        /\ CursorExhausted
        /\ signal' # "error")
       => /\ pc' = "ret"
          /\ signal' = "eof"
          /\ brk' = "eof"
          /\ it' = it
          /\ lastCb' = NoCallback
          /\ calls' = IF it.reverse \/ it.endHeight # NoValue
                      THEN calls
                      ELSE Append(calls, <<"BlockNumber", NoValue>>)]_vars

\* A second Iter call on an exhausted forward iterator signalled range-exhausted
\* after the by-hash lookup alone
C7_Witness ==
    /\ InLaterCall
    /\ pc = "ret"
    /\ signal = "eof"
    /\ ~it.reverse
    /\ it.current.number = it.endHeight
    /\ calls = << <<"HeaderByHash", it.current.number>> >>
    /\ ~lastCb.called

(* C8: cancellation. The driver looks at the cancellation signal before every    *)
(* epoch; once it is active at such a check no epoch is started (no reorg check, *)
(* no lookup, no callback), no retry is made, and Iter returns the cancellation  *)
(* error.                                                                        *)
C8_Cancellation ==
    [][/\ (pc # "reorg" /\ pc' = "reorg") => (pc = "check" /\ ~cancelled)
       /\ (pc = "check" /\ cancelled /\ pc' # pc) =>
             /\ pc' = "ret"
             /\ brk' = "ctx"
             /\ it' = it /\ calls' = calls /\ lastCb' = lastCb /\ pairs' = pairs
       /\ brk = "ctx" => (pc \in {"ret", "done"} /\ cancelled)
       /\ (pc = "ret" /\ brk = "ctx" /\ pc' # pc) =>
             /\ pc' = "done"
             /\ result' = "ctxErr"
             /\ it' = it /\ calls' = calls /\ lastCb' = lastCb /\ pairs' = pairs]_vars

\* After a failed epoch and its wait the check found the context cancelled, and
\* Iter returned the cancellation error
C8_Witness ==
    /\ pc = "done"
    /\ brk = "ctx"
    /\ result = "ctxErr"
    /\ signal = "error"
    /\ waited

(* C9: return value of Iter. When the retry wrapper has returned, Iter returns   *)
(* the cancellation error if cancellation is pending at that moment and nil      *)
(* otherwise, the loop having ended by range-exhausted; Iter returns nil only if *)
(* no cancellation is pending, even if the whole range was traversed before the  *)
(* cancellation arrived.                                                         *)
C9_IterReturnValue ==
    [][(pc = "ret" /\ pc' = "done") =>
          /\ brk \in {"eof", "ctx"}
          /\ result' = IF cancelled THEN "ctxErr" ELSE "nil"
          /\ result' = "nil" => (~cancelled /\ brk = "eof")]_vars

\* The whole range was traversed, then the context was cancelled, and Iter
\* returned the cancellation error
C9_Witness ==
    /\ CleanRunDone(FALSE)
    /\ Len(pairs) > 0
    /\ pairs[Len(pairs)].end = it.endHeight
    /\ result = "ctxErr"

(* C10: backoff placement. During Iter a backoff wait occurs exactly between an  *)
(* epoch that returned an error other than continue or range-exhausted and the   *)
(* next epoch attempt; after continue the next epoch starts with no wait; after  *)
(* range-exhausted there is no wait and no further epoch.                        *)
C10_BackoffPlacement ==
    [][/\ pc = "backoff" => signal = "error"
       /\ signal = "error" =>
             \/ pc = "backoff" /\ ~waited
             \/ waited /\ pc \in {"check", "ret", "done"}
       /\ signal = "continue" => (~waited /\ pc \in {"check", "ret", "done"})
       /\ signal = "eof" => (~waited /\ pc \in {"ret", "done"})
       /\ signal = "none" => ~waited
       /\ (pc = "check" /\ pc' = "reorg") => (waited <=> signal = "error")
       /\ (pc = "backoff" /\ pc' # pc) => (pc' = "check" /\ waited' /\ it' = it)]_vars

\* The wait after a failed epoch is over and the next attempt is about to start
C10_Witness ==
    /\ pc = "check"
    /\ signal = "error"
    /\ waited
    /\ ~cancelled

(* C11: Iter blocks until range-exhausted or cancellation. Iter returns only     *)
(* after an epoch signalled range-exhausted or after the driver observed the     *)
(* cancellation; an epoch that fails (lookup failure or callback error) never    *)
(* makes Iter return and its error is never the result of Iter: the driver       *)
(* waits and tries again, however often that repeats.                            *)
C11_IterBlocks ==
    [][/\ (pc # "ret" /\ pc' = "ret") =>
             \/ signal' = "eof" /\ brk' = "eof"
             \/ cancelled /\ brk' = "ctx" /\ pc = "check"
       /\ (signal # "error" /\ signal' = "error") => pc' = "backoff"
       /\ pc = "backoff" => (pc' \in {"backoff", "check"} /\ result' = "none")
       /\ pc = "done" => \/ result = "nil" /\ brk = "eof"
                         \/ result = "ctxErr" /\ cancelled
       /\ (Constructed /\ pc \notin {"ready", "done"}) => result = "none"]_vars

\* The callback failed, the context is not cancelled: the driver waits to retry
C11_Witness ==
    /\ pc = "backoff"
    /\ lastCb.called
    /\ lastCb.err
    /\ ~cancelled
    /\ result = "none"

(* C12: a callback error leaves the cursor in place. If the callback returns an  *)
(* error in an epoch and did not invoke update-cursor, the cursor after the      *)
(* epoch is the cursor the callback was invoked with (not the candidate          *)
(* boundary), and the next attempt that reaches the callback, absent a reorg     *)
(* and with the same destination, invokes it with the same start and end height. *)
C12_CallbackErrorKeepsCursor ==
    [][/\ (pc = "callback" /\ lastCb'.called /\ lastCb'.err /\ ~lastCb'.updCalled) =>
             /\ it'.current = it.current
             /\ signal' = "error"
             /\ pc' = "backoff"
       /\ (pc = "callback" /\ args.retry /\ loc.dest = args.dest) =>
             /\ CallbackStart = args.start
             /\ CallbackEnd = args.end]_vars

\* The callback failed on a batch of two blocks and is about to be invoked again
C12_Witness ==
    /\ pc = "callback"
    /\ args.retry
    /\ loc.dest = args.dest
    /\ args.end - args.start = 2
    /\ CallbackStart = args.start
    /\ CallbackEnd = args.end

\* The configuration misses what construction requires, or its heights are out of order
BadConfig ==
    \/ ~cfg.Client
    \/ ~cfg.OnBlocks
    \/ cfg.StartHeight = NoValue
    \/ cfg.Reverse /\ cfg.EndHeight = NoValue
    \/ cfg.EndHeight # NoValue /\ cfg.StartHeight > cfg.EndHeight

(* C13: construction validation. NewBlockBatchIterator fails and returns no      *)
(* iterator whenever the accessor, the callback or the start height is missing,  *)
(* the direction is reverse with no end height, or the start height is greater   *)
(* than the end height; so every iterator it returns has start <= end when an    *)
(* end height is set and has an end height when its direction is reverse.        *)
C13_ConstructionValidation ==
    /\ BadConfig => ~Constructed
    /\ ~Constructed => it = NoIterator
    /\ pc = "newfail" => result \in {"configErr", "chainIDErr", "lookupErr"}
    /\ Constructed =>
          /\ it.startHeight = cfg.StartHeight
          /\ it.startHeight # NoValue
          /\ it.endHeight = cfg.EndHeight
          /\ it.reverse = cfg.Reverse
          /\ it.endHeight # NoValue => it.startHeight <= it.endHeight
          /\ it.reverse => it.endHeight # NoValue

\* A start height above the end height was refused as a configuration error
C13_Witness ==
    /\ pc = "newfail"
    /\ result = "configErr"
    /\ cfg.EndHeight # NoValue
    /\ cfg.StartHeight > cfg.EndHeight
    /\ it = NoIterator

(* C14: configuration errors precede network calls. Constructing with reverse    *)
(* direction and no end height fails with a configuration error before any       *)
(* Chain Accessor call (chain-identity lookup or header lookup) has been made.   *)
C14_ConfigErrorBeforeCalls ==
    (cfg.Reverse /\ cfg.EndHeight = NoValue) =>
        /\ calls = <<>>
        /\ pc = "newfail" => result = "configErr"

\* The height construction seeds the cursor with
SeedHeight == IF cfg.Reverse THEN cfg.EndHeight ELSE cfg.StartHeight

(* C15: cursor seeding. After a successful construction the cursor is the header *)
(* the accessor returned for the start height when the direction is forward and  *)
(* the header it returned for the end height when the direction is reverse; the  *)
(* done latch is unset.                                                          *)
C15_CursorSeeding ==
    [][/\ (pc = "endHeader" /\ pc' = "ready") =>
             /\ it'.current = [number |-> SeedHeight, orphan |-> FALSE]
             /\ ~cfg.Reverse => it'.current = loc.hdr
             /\ ~it'.isEnd
       /\ pc = "ready" =>
             /\ it.current.number = SeedHeight
             /\ ~it.isEnd
             /\ result = "nil"]_vars

\* A reverse iterator over a non-empty range has been constructed
C15_Witness ==
    /\ pc = "ready"
    /\ it.reverse
    /\ cfg.EndHeight > cfg.StartHeight
    /\ it.current = [number |-> cfg.EndHeight, orphan |-> FALSE]
    /\ ~it.isEnd

\* The accessor calls of a construction that runs to its end, in order
ConstructionCalls ==
    << <<"ChainID", NoValue>>,
       <<"HeaderByNumber", cfg.StartHeight>>,
       <<"HeaderByNumber", cfg.EndHeight>> >>

IsPrefix(s, t) == Len(s) <= Len(t) /\ \A i \in 1..Len(s) : s[i] = t[i]

(* C16: construction lookups. Construction makes no Chain Accessor call other    *)
(* than one chain-identity lookup and the header lookups of the start and of the *)
(* end height, in that order; if one of them fails construction fails and no     *)
(* iterator is returned. Forward with no end height, the second header lookup is *)
(* still made (for the latest header) and its failure aborts construction.       *)
C16_ConstructionLookups ==
    /\ (~Constructed \/ pc = "ready") => IsPrefix(calls, ConstructionCalls)
    /\ pc = "ready" => calls = ConstructionCalls
    /\ pc \in {"startHeader", "endHeader"} => Len(calls) = (IF pc = "startHeader" THEN 1 ELSE 2)
    /\ (pc = "newfail" /\ result = "configErr") => (Len(calls) \in {0, 1, 2} /\ it = NoIterator)
    /\ (pc = "newfail" /\ result = "chainIDErr") => (Len(calls) = 1 /\ it = NoIterator)
    /\ (pc = "newfail" /\ result = "lookupErr") => (Len(calls) \in {2, 3} /\ it = NoIterator)
    /\ (pc = "newfail" /\ Len(calls) = 3) => result = "lookupErr"

\* Forward with no end height: the lookup of the latest header failed and
\* construction returned no iterator
C16_Witness ==
    /\ pc = "newfail"
    /\ result = "lookupErr"
    /\ ~cfg.Reverse
    /\ cfg.EndHeight = NoValue
    /\ calls = ConstructionCalls
    /\ it = NoIterator

\* The cursor changes in a step of the constructed iterator
CursorChanges == Constructed /\ it'.current # it.current

\* The step marks the cursor's block as reorganised away, the header staying the same
CursorOrphaned == it'.current = [it.current EXCEPT !.orphan = TRUE]

\* The step assigns a header the accessor has just returned: the result of the
\* rewind lookup, or the boundary header of an epoch whose callback returned nil
CursorFromAccessor ==
    \/ pc = "rewind" /\ it'.current = HeaderByNumber(calls'[Len(calls')][2])
    \/ pc = "callback" /\ ~lastCb'.err /\ it'.current = loc.hdr

(* C17: cursor provenance. After construction the cursor is always a header that *)
(* the Chain Accessor returned, at construction, as the boundary header of a     *)
(* successfully completed epoch or as the result of a rewind lookup, whatever    *)
(* the callback does with its capabilities (the claim as stated).                *)
C17_CursorOnlyFromAccessor ==
    [][CursorChanges => (CursorOrphaned \/ CursorFromAccessor)]_vars

(* C17, amended: after construction the cursor is either a header the Chain      *)
(* Accessor returned (at construction, as the boundary header of an epoch whose  *)
(* callback returned nil, or by a rewind lookup) or the non-nil header the       *)
(* callback passed to update-cursor in the last epoch; the callback's header is  *)
(* the cursor after every epoch in which the callback returned an error or, in   *)
(* forward mode, requested termination, and it need not come from the accessor.  *)
C17_CursorProvenance ==
    [][/\ CursorChanges =>
             \/ CursorOrphaned
             \/ CursorFromAccessor
             \/ /\ pc = "callback"
                /\ lastCb'.updCalled /\ lastCb'.upd # NilHeader
                /\ it'.current = lastCb'.upd
                /\ lastCb'.err \/ (~it.reverse /\ it'.isEnd)
       /\ (/\ pc = "callback" /\ lastCb'.called
           /\ lastCb'.updCalled /\ lastCb'.upd # NilHeader
           /\ lastCb'.err \/ (~it.reverse /\ it'.isEnd))
          => it'.current = lastCb'.upd]_vars

\* The cursor is a header the chain does not hold, handed over by a callback
\* that then failed
C17_Witness ==
    /\ pc = "backoff"
    /\ lastCb.updCalled
    /\ lastCb.err
    /\ lastCb.upd.orphan
    /\ it.current = lastCb.upd

\* The callback of this step invoked update-cursor with a nil header
NilUpdate == pc = "callback" /\ lastCb'.called /\ lastCb'.updCalled /\ lastCb'.upd = NilHeader

(* C18: a nil cursor update is a no-op. Invoking update-cursor with a nil header *)
(* leaves the cursor, the done latch and every other field of the iterator as    *)
(* they are and raises no error; hence the cursor is non-nil in every reachable  *)
(* state after a successful construction.                                        *)
C18_NilUpdateNoOp ==
    [][/\ NilUpdate =>
             /\ it'.current = (IF lastCb'.err \/ (~it.reverse /\ it'.isEnd)
                               THEN it.current ELSE loc.hdr)
             /\ it'.isEnd = (it.isEnd \/ lastCb'.end)
             /\ it' = [it EXCEPT !.current = it'.current, !.isEnd = it'.isEnd]
             /\ signal' = "error" <=> lastCb'.err
       /\ Constructed => (it.current # NilHeader /\ it.current.number \in Heights)
       /\ Constructed' => (it'.current # NilHeader /\ it'.current.number \in Heights)]_vars

\* A callback passed nil to update-cursor and failed: the cursor is as it was,
\* the latch unset
C18_Witness ==
    /\ pc = "backoff"
    /\ lastCb.updCalled
    /\ lastCb.upd = NilHeader
    /\ lastCb.err
    /\ ~it.isEnd
    /\ it.current.number = args.start
    /\ ~it.reverse

(* C19: done latch. The done flag is set only by the callback's end-iteration    *)
(* capability and, once true, stays true in every later state of the iterator    *)
(* (across epochs, failed attempts and retries); every epoch in which the        *)
(* callback returns nil while the latch is true signals range-exhausted, never   *)
(* continue.                                                                     *)
C19_DoneLatch ==
    [][/\ (Constructed /\ it.isEnd) => it'.isEnd
       /\ (Constructed /\ ~it.isEnd /\ it'.isEnd) =>
             (pc = "callback" /\ lastCb'.called /\ lastCb'.end)
       /\ (pc = "callback" /\ lastCb'.called /\ lastCb'.end) => it'.isEnd
       /\ (pc = "callback" /\ lastCb'.called /\ it'.isEnd /\ ~lastCb'.err) =>
             (signal' = "eof" /\ pc' = "ret")]_vars

\* The latch was set in an attempt that failed; in a later attempt the callback
\* returned nil without calling end, and the epoch signalled range-exhausted with
\* blocks remaining
C19_Witness ==
    /\ InFirstCall
    /\ it.isEnd
    /\ lastCb.called
    /\ ~lastCb.end
    /\ ~lastCb.err
    /\ signal = "eof"
    /\ it.reverse
    /\ it.current.number > it.startHeight

\* An epoch attempt is between its reorg check and its callback
InEpochBody == pc \in {"bounds", "fetch", "callback"}

(* C20: one callback per epoch. Every epoch attempt invokes the callback at most *)
(* once, and exactly once when the reorg check succeeded, the range is not       *)
(* exhausted and the boundary header lookup succeeded; the arguments are         *)
(* (cursor, candidate end header) in forward mode and (candidate start header,   *)
(* cursor) in reverse mode, the cursor being the one after the reorg check of    *)
(* that attempt.                                                                 *)
C20_OneCallbackPerEpoch ==
    [][/\ lastCb.called => pc \in {"check", "backoff", "ret", "done"}
       /\ (~lastCb.called /\ lastCb'.called) =>
             /\ pc = "callback"
             /\ calls[1][1] = "HeaderByHash"
             /\ calls[Len(calls)] = <<"HeaderByNumber", loc.cand>>
             /\ loc.hdr.number = loc.cand
             /\ loc.cand # NoValue
       /\ (pc = "callback" /\ pc' # pc) =>
             /\ lastCb'.called
             /\ args'.start = (IF it.reverse THEN loc.hdr.number ELSE it.current.number)
             /\ args'.end = (IF it.reverse THEN it.current.number ELSE loc.hdr.number)
       /\ (pc = "fetch" /\ pc' \notin {"fetch", "callback"}) => signal' = "error"
       /\ (pc = "bounds" /\ pc' \notin {"bounds", "fetch"}) =>
             \/ signal' = "error"
             \/ signal' = "eof" /\ CursorExhausted
       /\ (InEpochBody /\ signal' = "none") =>
             (pc' \in {"bounds", "fetch", "callback"}
              /\ it'.current.number = it.current.number)]_vars

\* A reverse epoch has invoked the callback with (candidate start header, cursor)
\* and goes on
C20_Witness ==
    /\ pc = "check"
    /\ signal = "continue"
    /\ lastCb.called
    /\ it.reverse
    /\ args.start < args.end
    /\ it.current.number = args.start

(* C21: proof result contract. Whatever the prover daemon answers and whenever   *)
(* the context is cancelled, every ProofWithHeader on the result channel of a    *)
(* RequestProof call carries the block ID and the header passed to the call and  *)
(* a non-empty proof, and at most one result is delivered per request.           *)
C21_ProofResultContract ==
    /\ Len(producer.resultCh) <= 1
    /\ \A i \in 1..Len(producer.resultCh) :
          /\ producer.resultCh[i].BlockID = producer.blockID
          /\ producer.resultCh[i].Header = producer.header
          /\ producer.resultCh[i].Proof # <<>>

\* The epoch takes its step from the exhaustion check with the cursor at or past
\* the end of its range (forward: the configured end height or the chain head)
ExhaustedAtBounds ==
    /\ pc = "bounds"
    /\ pc' # "bounds"
    /\ IF it.reverse
       THEN it.current.number <= it.startHeight
       ELSE it.current.number >= (IF it.endHeight # NoValue THEN it.endHeight ELSE head)

(* C22: the exhaustion check has no effect. A forward epoch that finds           *)
(* current.height >= dest and a reverse epoch that finds current.height <= start *)
(* height signal range-exhausted without fetching a boundary header and without  *)
(* invoking the callback, and leave the cursor and the done latch unchanged (the *)
(* by-hash lookup that found the cursor left them unchanged too). Without a      *)
(* configured end height the query for dest may fail instead, as an error.       *)
C22_ExhaustionNoEffect ==
    [][/\ ExhaustedAtBounds =>
             /\ \/ signal' = "eof"
                \/ ~it.reverse /\ it.endHeight = NoValue /\ signal' = "error"
             /\ it' = it
             /\ ~lastCb'.called
             /\ calls' \in {calls, Append(calls, <<"BlockNumber", NoValue>>)}
       /\ pc = "reorg" /\ pc' = "bounds" => it' = it]_vars

\* A reverse epoch has signalled range-exhausted from its exhaustion check
C22_Witness ==
    /\ Constructed
    /\ it.reverse
    /\ it.current.number <= it.startHeight
    /\ signal = "eof"
    /\ ~lastCb.called
    /\ calls = <<<<"HeaderByHash", it.current.number>>>>

\* The callback of a forward epoch is invoked and returns in this step
FwdCallbackStep == pc = "callback" /\ pc' # "callback" /\ ~it.reverse

HeadQueries(c) == Cardinality({i \in DOMAIN c : c[i][1] = "BlockNumber"})

\* A forward epoch without configured end height takes its step from the
\* destination query and the exhaustion check
UnboundedBoundsStep ==
    pc = "bounds" /\ pc' # "bounds" /\ ~it.reverse /\ it.endHeight = NoValue

(* C24: fresh destination when unbounded. In forward mode with no end height     *)
(* configured, every epoch attempt that passes its reorg check queries the chain *)
(* head height exactly once, after the reorg check and before the exhaustion     *)
(* check, and uses that value as dest for this epoch only, so a head that        *)
(* advanced between epochs is seen by the next epoch; a failure of the query     *)
(* fails the epoch without invoking the callback and with the cursor as the      *)
(* reorg check left it; no attempt queries twice, and with an end height         *)
(* configured the head height is never queried.                                  *)
C24_FreshDestination ==
    [][/\ UnboundedBoundsStep =>
             /\ HeadQueries(calls) = 0
             /\ calls' = Append(calls, <<"BlockNumber", NoValue>>)
             /\ signal' \in {"none", "eof", "error"}
             /\ signal' = "none" => /\ pc' = "fetch"
                                    /\ loc'.dest = head
                                    /\ it.current.number < head
             /\ signal' = "eof" => it.current.number >= head
             /\ signal' # "none" => it' = it /\ ~lastCb'.called
       /\ HeadQueries(calls') <= 1
       /\ Constructed' /\ (it'.endHeight # NoValue \/ it'.reverse)
             => HeadQueries(calls') = 0]_vars

\* The epoch retried after a failed callback works towards a head that has
\* advanced since the failed epoch read it
C24_Witness ==
    /\ pc = "fetch"
    /\ ~it.reverse
    /\ it.endHeight = NoValue
    /\ args.retry
    /\ args.dest < loc.dest
    /\ loc.dest = head
    /\ HeadQueries(calls) = 1

\* C24 as first stated: every epoch attempt of a forward iterator without end
\* height has queried the chain head exactly once by the time it returns
C24_QueryInEveryAttempt ==
    Constructed /\ ~it.reverse /\ it.endHeight = NoValue /\ signal # "none"
        => HeadQueries(calls) = 1

\* cur - batch over the naturals: 0 when cur <= batch
Monus(cur, batch) == IF cur <= batch THEN 0 ELSE cur - batch

(* C25: reverse boundary without underflow. In every reverse epoch that invokes  *)
(* the callback, the start height passed is max(start height, current.height -   *)
(* batchSize) computed over the naturals (0 when current.height <= batchSize, no *)
(* unsigned wrap-around), so it is never below the configured start height and   *)
(* never above the cursor height; the epoch is final exactly when that candidate *)
(* is <= start height. The boundary is fixed by the step after the exhaustion    *)
(* check and is the one the callback receives.                                   *)
C25_ReverseBoundary ==
    [][/\ pc = "bounds" /\ pc' = "fetch" /\ it.reverse =>
             /\ loc'.cand = Max(it.startHeight,
                                Monus(it.current.number, it.blocksReadPerEpoch))
             /\ loc'.last = (Monus(it.current.number, it.blocksReadPerEpoch)
                                <= it.startHeight)
       /\ pc = "callback" /\ pc' # "callback" /\ it.reverse =>
             /\ args'.start = Max(it.startHeight,
                                  Monus(it.current.number, it.blocksReadPerEpoch))
             /\ args'.start >= it.startHeight
             /\ args'.start <= it.current.number
             /\ args'.end = it.current.number
             /\ loc.last = (Monus(it.current.number, it.blocksReadPerEpoch)
                               <= it.startHeight)]_vars

\* The callback of a reverse epoch has received the start height 0 although the
\* batch size exceeds the cursor height
C25_Witness ==
    /\ Constructed
    /\ it.reverse
    /\ lastCb.called
    /\ args.end < it.blocksReadPerEpoch
    /\ args.start = 0
    /\ it.startHeight = 0

\* The number of by-hash lookups among the accessor calls c
HashLookups(c) == Cardinality({i \in DOMAIN c : c[i][1] = "HeaderByHash"})

\* An epoch attempt is past its first step, or has returned to the driver
AttemptUnderWay == pc \in {"rewind", "bounds", "fetch", "callback"} \/ signal # "none"

(* C26: the reorg check comes first, once per attempt. In every epoch attempt of *)
(* either direction, including attempts that follow a failed epoch and attempts  *)
(* on an already exhausted range, exactly one by-hash lookup of the cursor is    *)
(* made, and it precedes every other accessor call and the callback invocation   *)
(* of that attempt.                                                              *)
C26_ReorgCheckFirst ==
    [][/\ pc = "reorg" /\ pc' # "reorg" =>
             /\ calls = <<>>
             /\ ~lastCb.called
             /\ calls' = <<<<"HeaderByHash", it.current.number>>>>
       /\ pc = "reorg" => calls = <<>> /\ ~lastCb.called /\ signal = "none"
       /\ Constructed' /\ AttemptUnderWay' =>
             /\ Len(calls') >= 1
             /\ calls'[1][1] = "HeaderByHash"
             /\ HashLookups(calls') = 1]_vars

\* The attempt that retries a failed callback has made its by-hash lookup, and
\* nothing else yet
C26_Witness ==
    /\ pc = "bounds"
    /\ args.retry
    /\ waited = FALSE
    /\ calls = <<<<"HeaderByHash", it.current.number>>>>

\* The by-hash lookup reports not-found and the attempt goes on to the rewind
NotFoundStep == EnsureCurrentNotReorged /\ pc' = "rewind" /\ signal' = "none"

(* C27: not-found is not a failure. When the by-hash lookup of the cursor        *)
(* reports not-found, the epoch attempt does not return an error for it and      *)
(* causes no backoff wait: it goes on to the rewind, where the cursor is         *)
(* replaced by the header fetched by number at the rewind height, and the same   *)
(* attempt goes on to its exhaustion check, boundary computation and callback;   *)
(* when the lookup finds the header, the cursor is left unchanged.               *)
C27_NotFoundNoFailure ==
    [][/\ pc = "reorg" /\ ~HeaderByHashFound(it.current) => ENABLED NotFoundStep
       /\ pc = "reorg" /\ pc' = "rewind" =>
             /\ ~HeaderByHashFound(it.current)
             /\ it' = it
             /\ signal' = "none"
             /\ ~waited'
       /\ pc = "reorg" /\ pc' = "bounds" =>
             /\ HeaderByHashFound(it.current)
             /\ it' = it
       /\ pc = "rewind" /\ pc' # "rewind" /\ signal' # "error" =>
             /\ pc' = "bounds"
             /\ it'.current = [number |-> Monus(it.current.number, it.reorgRewindDepth),
                               orphan |-> FALSE]
             /\ it' = [it EXCEPT !.current = it'.current]
             /\ calls' = Append(calls, <<"HeaderByNumber", it'.current.number>>)
             /\ signal' = "none"
             /\ ~waited']_vars

\* An attempt has found its cursor reorganised away, fetched the rewind header and
\* the boundary header, and invoked the callback, without a wait
C27_Witness ==
    /\ Constructed
    /\ it.endHeight # NoValue
    /\ lastCb.called
    /\ signal \in {"continue", "eof"}
    /\ ~waited
    /\ Len(calls) = 3
    /\ calls[1][1] = "HeaderByHash"
    /\ calls[2] = <<"HeaderByNumber", calls[1][2]>>
    /\ calls[3][1] = "HeaderByNumber"

(* C28: reorg-check failures leave the state unchanged. If the by-hash lookup    *)
(* fails with an error other than not-found, or the by-number lookup of the      *)
(* rewind fails, the epoch attempt returns an error to the driver, the callback  *)
(* is not invoked in that attempt, and the cursor and the done latch are exactly *)
(* what they were before the attempt (no step of the reorg check before the      *)
(* failure has touched them).                                                    *)
C28_ReorgCheckFailure ==
    [][/\ pc \in {"reorg", "rewind"} /\ signal' = "error" =>
             /\ pc' = "backoff"
             /\ it' = it
             /\ ~lastCb'.called
             /\ HashLookups(calls') = 1
             /\ Len(calls') = (IF pc = "reorg" THEN 1 ELSE 2)
       /\ pc = "check" /\ pc' = "reorg" => it' = it
       /\ pc = "reorg" /\ pc' = "rewind" => it' = it
       /\ pc \in {"reorg", "rewind"} /\ pc' \notin {"reorg", "rewind", "bounds"}
             => signal' = "error"]_vars

\* The by-number lookup of the rewind has failed: the attempt has returned an
\* error with two accessor calls made and no callback invoked
C28_Witness ==
    /\ pc = "backoff"
    /\ signal = "error"
    /\ ~lastCb.called
    /\ it.endHeight # NoValue
    /\ it.blocksReadPerEpoch >= 1
    /\ it.current.orphan
    /\ calls = <<<<"HeaderByHash", it.current.number>>,
                 <<"HeaderByNumber", it.current.number>>>>

\* The callback is invoked in an epoch that is not the final one, invokes
\* end-iteration and returns nil
EndedInMidRange ==
    /\ pc = "callback"
    /\ pc' # "callback"
    /\ ~loc.last
    /\ lastCb'.end
    /\ ~lastCb'.err

(* C29: reverse checks the termination latch like forward. In reverse mode, if   *)
(* the callback invokes end-iteration and returns nil in an epoch that is not    *)
(* the final one, the epoch signals range-exhausted and not continue, and the    *)
(* driver leaves its loop, exactly as on the forward path.                       *)
C29_ReverseChecksLatch ==
    [][EndedInMidRange =>
          /\ it'.isEnd
          /\ signal' = "eof"
          /\ pc' = "ret"
          /\ brk' = "eof"]_vars

\* A reverse epoch short of the start height has signalled range-exhausted because
\* its callback invoked end-iteration
C29_Witness ==
    /\ Constructed
    /\ it.reverse
    /\ signal = "eof"
    /\ lastCb.called
    /\ lastCb.end
    /\ ~lastCb.err
    /\ args.start > it.startHeight
    /\ it.current.number > it.startHeight

\* The callback is invoked and returns nil in this step
CallbackReturnsNil == pc = "callback" /\ pc' # "callback" /\ ~lastCb'.err

\* The cursor as the callback of this step leaves it: the header it gave to
\* update-cursor if that was not nil, the cursor of before otherwise
LeftByCallback ==
    IF lastCb'.updCalled /\ lastCb'.upd # NilHeader THEN lastCb'.upd ELSE it.current

(* C30: the cursor after an epoch whose callback returned nil. In forward mode   *)
(* the cursor is the candidate end header if the done latch is unset, and        *)
(* otherwise is left as the callback left it (the pre-epoch cursor, or the       *)
(* header last given to update-cursor); in reverse mode the cursor is always the *)
(* candidate start header, whether or not the latch is set and whatever header   *)
(* update-cursor was given.                                                      *)
C30_CursorAfterNilEpoch ==
    [][CallbackReturnsNil =>
          /\ loc.hdr = [number |-> loc.cand, orphan |-> loc.hdr.orphan]
          /\ it'.current = (IF it.reverse \/ ~it'.isEnd THEN loc.hdr ELSE LeftByCallback)
          /\ it'.isEnd = (it.isEnd \/ lastCb'.end)]_vars

\* A forward epoch has ended on the latch with the cursor on the header its
\* callback gave to update-cursor, which is not the candidate end header
C30_Witness ==
    /\ Constructed
    /\ ~it.reverse
    /\ signal = "eof"
    /\ lastCb.called
    /\ ~lastCb.err
    /\ it.isEnd
    /\ lastCb.updCalled
    /\ lastCb.upd # NilHeader
    /\ it.current = lastCb.upd
    /\ it.current.number # args.end
    /\ it.current.number # args.start

(* C31: ordered boundaries under 64-bit arithmetic. In every callback invocation *)
(* of either direction the start header's height is <= the end header's height,  *)
(* for all cursor heights, batch sizes and destinations representable as         *)
(* unsigned integers of the program's width, the forward sum current.height +    *)
(* batchSize being computed modulo the range of that width.                      *)
C31_OrderedBoundaries ==
    Constructed /\ args.start # NoValue => args.start <= args.end

\* ceil((E - S) / B) for the range and the batch size of the iterator
ExpectedEpochs ==
    (it.endHeight - it.startHeight + it.blocksReadPerEpoch - 1) \div it.blocksReadPerEpoch

ZeroBatchRun ==
    /\ Constructed
    /\ first
    /\ cfg.MaxBlocksReadPerEpoch = 0
    /\ cfg.EndHeight # NoValue
    /\ cfg.StartHeight < cfg.EndHeight

(* C33: batch size zero never progresses. Construction accepts a configured      *)
(* maximum of 0 blocks per epoch, and with it every epoch that reaches the       *)
(* callback invokes it with start header and end header at the cursor's own      *)
(* height and is never the final one; if the callback returns nil with the latch *)
(* unset, the cursor height is unchanged and the epoch signals continue. The     *)
(* cursor height changes only if the callback gives a header to update-cursor    *)
(* and then fails or (forward) ends the iteration, and Iter leaves its loop only *)
(* on cancellation, on the latch, or on a cursor at the end of its range.        *)
C33_ZeroBatch ==
    [][/\ Constructed' /\ cfg.MaxBlocksReadPerEpoch = 0 => it'.blocksReadPerEpoch = 0
       /\ pc = "callback" /\ pc' # "callback" /\ cfg.MaxBlocksReadPerEpoch = 0 =>
             /\ args'.start = it.current.number
             /\ args'.end = it.current.number
             /\ ~loc.last
             /\ ~lastCb'.err /\ ~it'.isEnd =>
                   /\ it'.current.number = it.current.number
                   /\ signal' = "continue"
       /\ Constructed /\ cfg.MaxBlocksReadPerEpoch = 0
             /\ it'.current.number # it.current.number =>
             /\ pc = "callback"
             /\ lastCb'.updCalled
             /\ lastCb'.err \/ (it'.isEnd /\ ~it.reverse)
       /\ cfg.MaxBlocksReadPerEpoch = 0 /\ pc # "ret" /\ pc' = "ret" =>
             \/ cancelled
             \/ it'.isEnd
             \/ pc = "bounds" /\ ExhaustedAtBounds]_vars

\* With batch size 0 an epoch has passed the cursor's own height twice to the
\* callback, left the cursor there and signalled continue
C33_Witness ==
    /\ ZeroBatchRun
    /\ it.blocksReadPerEpoch = 0
    /\ lastCb.called
    /\ ~lastCb.err
    /\ signal = "continue"
    /\ args.start = args.end
    /\ it.current.number = args.start

\* C33 as first stated: with batch size 0 and a range that is not exhausted, Iter
\* returns only on cancellation or when the callback requests termination
C33_ReturnsOnlyOnCancelOrEnd ==
    ZeroBatchRun /\ pc = "ret" => cancelled \/ it.isEnd

(* C34: the cursor height is monotone. In every step other than a callback that  *)
(* invokes update-cursor, the cursor's height does not decrease in a forward     *)
(* iterator and does not increase in a reverse one: across successful epochs,    *)
(* failed attempts, retries and reorg rewinds, for whatever reorg rewind depth   *)
(* was given in the configuration.                                               *)
C34_CursorMonotone ==
    [][Constructed /\ ~(pc = "callback" /\ lastCb'.updCalled) =>
          IF it.reverse
          THEN it'.current.number <= it.current.number
          ELSE it'.current.number >= it.current.number]_vars

\* callProverDaemon runs its operation in this step
PollStep == producer.pc = "poll" /\ producer'.pc # "poll"

(* C35: SGX proof polling. callProverDaemon repeats the proof request at a       *)
(* constant polling interval, without a bound on attempts, as long as a request  *)
(* fails or answers with no result, and returns the proof of the first request   *)
(* that answers with a result; once the context is cancelled it makes no further *)
(* request, stops at its next attempt and returns no error together with an      *)
(* empty proof.                                                                  *)
C35_ProofPolling ==
    [][/\ PollStep /\ ~producer.ctxDone =>
             \/ /\ producer'.pc = "wait"
                /\ producer'.proof = <<>>
                /\ producer'.ret = "none"
             \/ /\ producer'.pc = "deliver"
                /\ producer'.polls = producer.polls
       /\ producer.pc = "wait" /\ producer'.pc # "wait" =>
             /\ NextBackOff(producer.polls) = "proofPollingInterval"
             /\ producer' = [producer EXCEPT !.pc = "poll"]
       /\ PollStep /\ producer.ctxDone =>
             /\ producer' = [producer EXCEPT !.pc = "deliver"]
             /\ producer.proof = <<>>
       /\ producer'.pc = "returned" => producer'.ret = "nil"]_vars


\* The reorg check runs in this step: the by-hash lookup has answered
ReorgCheckStep == pc = "reorg" /\ lookup' # NoLookup

(* C36: Reorg classification. ensureCurrentNotReorged treats the cursor as       *)
(* reorged exactly when the by-hash lookup yields no header and either no error  *)
(* or an error whose message equals that of the accessor's not-found error; an   *)
(* error with any other message is returned without rewinding, and a returned    *)
(* header means no reorg regardless of the header's contents.                    *)
C36_ReorgClassification ==
    [][ReorgCheckStep =>
          /\ (pc' = "rewind") <=> (~lookup'.current /\ lookup'.err \in {"nil", "notFound"})
          /\ lookup'.err = "other" =>
                signal' = "error" /\ pc' \notin {"rewind", "bounds"} /\ it' = it
          /\ (lookup'.current /\ lookup'.err # "other") =>
                pc' = "bounds" /\ signal' = signal /\ it' = it]_vars

\* A header came back together with a not-found error, and the epoch goes on without a rewind
C36_Witness ==
    /\ pc = "bounds"
    /\ lookup = [current |-> TRUE, err |-> "notFound"]
    /\ ~it.current.orphan

====
